---- MODULE Spec2Model ----
(***************************************************************************)
(* Model of oget (src/oget/__main__.py): the model-name parser, the `get`  *)
(* command (manifest fetch and rendering) and the `install` command        *)
(* (permission guard, source validation, models-path resolution, manifest  *)
(* and blob copy).                                                         *)
(*                                                                         *)
(* Python strings that the code inspects (model names, file names,         *)
(* digests, paths, the operator's answer) are sequences of one-character   *)
(* strings, so that `in`, startswith, split, replace, strip and upper are  *)
(* computed the way the code computes them.  Fixed path components         *)
(* ("manifests", "blobs", the registry host) and message identifiers are   *)
(* atomic strings.                                                         *)
(***************************************************************************)
EXTENDS Integers, Sequences, FiniteSets, TLC

VARIABLES
    pc,           \* position in the running command
    exitCode,     \* "running", "0" or "1": the process exit status
    out,          \* everything printed so far: <<[stream, msg, arg], ...>>
    argsModel,    \* args.model
    ref,          \* [namespace, model, tag] as returned by parse_model_name
    resp,         \* get: the registry's answer to the single HTTP request
    platform,     \* install: platform.system().lower() is "windows" or not
    priv,         \* install: what the privilege probe does
    argsModelsPath, \* install: args.modelsPath, [given, val]
    envModels,    \* install: os.environ.get("OLLAMA_MODELS"), [given, val]
    srcExists,    \* install: os.path.exists(blobs_path)
    srcManifest,  \* install: what <blobs_path>/manifest is: "absent", "file", "dir"
    modelsPath,   \* install: the resolved models path, [resolved, val]
    fs,           \* the stores: root path -> [dirs, files]
    fs0,          \* the stores as they were when the command started
    listing,      \* install: os.listdir(blobs_path): name -> [kind, content]
    todo,         \* install: names of the listing the loop has not visited yet
    choice        \* install: the operator's answer to the overwrite prompt

vars == <<pc, exitCode, out, argsModel, ref, resp, platform, priv,
          argsModelsPath, envModels, srcExists, srcManifest, modelsPath,
          fs, fs0, listing, todo, choice>>

(***************************************************************************)
(* Bounds of the model.                                                    *)
(***************************************************************************)
MaxLen == 5      \* longest model name given to the parser
MaxLayers == 2   \* longest `layers` array of a manifest
MaxFiles == 3    \* most entries (besides `manifest`) in the source directory

(***************************************************************************)
(* Python string operations on sequences of characters.                    *)
(***************************************************************************)
Strings(alphabet, n) == UNION {[1..k -> alphabet] : k \in 0..n}

\* p in s
Contains(s, p) ==
    \E i \in 1..(Len(s) - Len(p) + 1) : SubSeq(s, i, i + Len(p) - 1) = p

\* s.startswith(p)
StartsWith(s, p) == Len(p) <= Len(s) /\ SubSeq(s, 1, Len(p)) = p

\* s.find(p) + 1, and 0 when p is not in s
Find(s, p) ==
    IF Contains(s, p)
    THEN CHOOSE i \in 1..(Len(s) - Len(p) + 1) :
            /\ SubSeq(s, i, i + Len(p) - 1) = p
            /\ \A j \in 1..(i - 1) : SubSeq(s, j, j + Len(p) - 1) # p
    ELSE 0

\* s.split(sep, 1) for a separator that occurs in s
SplitFirst(s, sep) ==
    LET i == Find(s, sep)
    IN  <<SubSeq(s, 1, i - 1), SubSeq(s, i + Len(sep), Len(s))>>

\* s.replace(old, new, 1)
ReplaceFirst(s, old, new) ==
    LET i == Find(s, old)
    IN  IF i = 0 THEN s
        ELSE SubSeq(s, 1, i - 1) \o new \o SubSeq(s, i + Len(old), Len(s))

\* s.replace(c, d) for one-character c and d: every occurrence
ReplaceChar(s, c, d) == [i \in 1..Len(s) |-> IF s[i] = c THEN d ELSE s[i]]

Whitespace == {" ", "\t"}

RECURSIVE LStrip(_)
LStrip(s) ==
    IF s # <<>> /\ Head(s) \in Whitespace THEN LStrip(Tail(s)) ELSE s

RECURSIVE RStrip(_)
RStrip(s) ==
    IF s # <<>> /\ s[Len(s)] \in Whitespace
    THEN RStrip(SubSeq(s, 1, Len(s) - 1)) ELSE s

\* s.strip()
Strip(s) == RStrip(LStrip(s))

UpperChar(c) ==
    CASE c = "y" -> "Y"
      [] c = "e" -> "E"
      [] c = "s" -> "S"
      [] c = "n" -> "N"
      [] OTHER   -> c

\* s.upper()
Upper(s) == [i \in 1..Len(s) |-> UpperChar(s[i])]

(***************************************************************************)
(* Output.  print_error writes to stderr; print_success, print_info,       *)
(* print_warning and bare print write to stdout.  An uncaught exception    *)
(* ends the process with status 1 and a traceback on stderr.               *)
(***************************************************************************)
Line(stream, msg, arg) == [stream |-> stream, msg |-> msg, arg |-> arg]

print_success(msg, arg) == Line("stdout", msg, arg)
print_info(msg, arg) == Line("stdout", msg, arg)
print_warning(msg, arg) == Line("stdout", msg, arg)
print_error(msg, arg) == Line("stderr", msg, arg)
print(msg, arg) == Line("stdout", msg, arg)
Traceback(exc) == Line("stderr", "Traceback", <<exc>>)

(***************************************************************************)
(* parse_model_name                                                        *)
(***************************************************************************)
Colon == <<":">>
Slash == <<"/">>
Latest == <<"l", "a", "t", "e", "s", "t">>
Library == <<"l", "i", "b", "r", "a", "r", "y">>

\* the branch `if ":" in model_name_input`
HasTag(s) == Contains(s, Colon)

\* the branch `if "/" in base`
HasNamespace(base) == Contains(base, Slash)

\* parse_model_name with the namespace split done on the whole input, before
\* the tag is cut off
parse_model_name_SlashFirst(s) ==
    LET rest == IF HasNamespace(s) THEN SplitFirst(s, Slash)[2] ELSE s
    IN  [namespace |-> IF HasNamespace(s) THEN SplitFirst(s, Slash)[1] ELSE Library,
         model     |-> rest,
         tag       |-> IF HasTag(rest) THEN SplitFirst(rest, Colon)[2] ELSE Latest]

\* the returned triple
parse_model_name(s) ==
    LET base == IF HasTag(s) THEN SplitFirst(s, Colon)[1] ELSE s
        tag  == IF HasTag(s) THEN SplitFirst(s, Colon)[2] ELSE Latest
    IN  IF HasNamespace(base)
        THEN [namespace |-> SplitFirst(base, Slash)[1],
              model     |-> SplitFirst(base, Slash)[2],
              tag       |-> tag]
        ELSE [namespace |-> Library, model |-> base, tag |-> tag]

\* what parse_model_name prints
ParseOutput(s) ==
    IF HasTag(s) THEN <<>> ELSE <<print_warning("Using default model tag", <<>>)>>

NoRef == [namespace |-> <<>>, model |-> <<>>, tag |-> <<>>]

(***************************************************************************)
(* cmd_get                                                                 *)
(***************************************************************************)
DEFAULT_REGISTRY == "registry.ollama.ai"

\* https://<registry>/v2/<namespace>/<model>/<kind>/<id>
Url(r, kind, id) ==
    [registry |-> DEFAULT_REGISTRY, namespace |-> r.namespace,
     model |-> r.model, kind |-> kind, id |-> id]

NameAlphabet == {"a", "/", ":"}
GetNames == {<<"a">>, <<"a", "/", "a", ":", "a">>}

DigestA == <<"s", "h", "a", "2", "5", "6", ":", "a", "a">>
DigestB == <<"s", "h", "a", "2", "5", "6", ":", "b", "b">>
DigestC == <<"s", "h", "a", "2", "5", "6", ":", "c", "c">>

\* One entry of the manifest: a JSON object that has a "digest" key or not.
Layer(hasDigest, digest) == [hasDigest |-> hasDigest, digest |-> digest]
LayerKinds ==
    {Layer(FALSE, <<>>), Layer(TRUE, <<>>), Layer(TRUE, DigestA), Layer(TRUE, DigestB)}

\* data.get("config"): absent, an empty object, or an object with or without a digest
Config(present, empty, layer) == [present |-> present, empty |-> empty, layer |-> layer]
ConfigKinds ==
    {Config(FALSE, TRUE, Layer(FALSE, <<>>)),
     Config(TRUE, TRUE, Layer(FALSE, <<>>)),
     Config(TRUE, FALSE, Layer(FALSE, <<>>)),
     Config(TRUE, FALSE, Layer(TRUE, DigestC))}

Response(kind, layers, config) == [kind |-> kind, layers |-> layers, config |-> config]
NoResponse == Response("none", <<>>, Config(FALSE, TRUE, Layer(FALSE, <<>>)))

\* What urlopen and json.loads can give: a 200 with a manifest, a 200 whose body
\* is not JSON, another success status, HTTPError 404, another HTTPError, URLError.
Responses ==
    {Response("ok", l, c) : l \in Strings(LayerKinds, MaxLayers), c \in ConfigKinds}
    \cup {Response(k, <<>>, Config(FALSE, TRUE, Layer(FALSE, <<>>))) :
            k \in {"badjson", "status", "404", "httperror", "urlerror"}}

\* `if config:` is true of a non-empty object
ConfigTruthy(c) == c.present /\ ~c.empty

\* `if digest:` is true of a non-empty string
DigestTruthy(l) == l.hasDigest /\ l.digest # <<>>

\* the config inserted in front of the layers instead of appended
AllLayers_ConfigFirst(r) ==
    IF ConfigTruthy(r.config) THEN <<r.config.layer>> \o r.layers ELSE r.layers

\* layers = data.get("layers", []); if config: layers.append(config)
AllLayers(r) ==
    IF ConfigTruthy(r.config) THEN Append(r.layers, r.config.layer) ELSE r.layers

\* the loop `for i, layer in enumerate(layers, 1)`: the lines it prints
RECURSIVE LayerLines(_, _, _)
LayerLines(r, layers, i) ==
    IF i > Len(layers) THEN <<>>
    ELSE (IF DigestTruthy(layers[i])
          THEN <<print("layer", <<i, Url(r, "blobs", layers[i].digest)>>)>>
          ELSE <<>>) \o LayerLines(r, layers, i + 1)

\* the same loop: the curl_commands it collects
RECURSIVE CurlCommands(_, _, _)
CurlCommands(r, layers, i) ==
    IF i > Len(layers) THEN <<>>
    ELSE (IF DigestTruthy(layers[i])
          THEN <<print("curl blob", <<Url(r, "blobs", layers[i].digest),
                                      ReplaceChar(layers[i].digest, ":", "-")>>)>>
          ELSE <<>>) \o CurlCommands(r, layers, i + 1)

\* everything cmd_get prints after a manifest was read
Rendering(r, response) ==
    <<print("Manifest:", <<>>),
      print("manifest url", <<Url(r, "manifests", r.tag)>>),
      print("Curl command to download the manifest", <<>>),
      print("curl manifest", <<Url(r, "manifests", r.tag)>>),
      print("Download links for layers:", <<>>)>>
    \o LayerLines(r, AllLayers(response), 1)
    \o <<print("Curl command to download all blobs", <<>>)>>
    \o CurlCommands(r, AllLayers(response), 1)
    \o <<print("Finished successfully!", <<>>)>>

\* cmd_get up to the request: parse the name, announce the fetch
GetParse ==
    /\ pc = "get"
    /\ ref' = parse_model_name(argsModel)
    /\ out' = out \o ParseOutput(argsModel)
                  \o <<print_info("Fetching direct download link", <<>>)>>
    /\ pc' = "fetch"
    /\ UNCHANGED <<exitCode, argsModel, resp, platform, priv, argsModelsPath,
                   envModels, srcExists, srcManifest, modelsPath, fs, fs0,
                   listing, todo, choice>>

\* what the try block prints when the request or the parse fails
FetchFailure(kind) ==
    CASE kind = "status"    -> print_error("Registry returned status", <<>>)
      [] kind = "404"       -> print_error("Model not found on the registry", <<>>)
      [] kind = "httperror" -> print_error("HTTP Error fetching manifest", <<>>)
      [] kind = "urlerror"  -> print_error("URL Error fetching manifest", <<>>)
      [] OTHER              -> Traceback("JSONDecodeError")

\* the single request and json.loads
GetFetch ==
    /\ pc = "fetch"
    /\ \E r \in Responses :
        /\ resp' = r
        /\ IF r.kind = "ok"
           THEN /\ pc' = "render"
                /\ UNCHANGED <<out, exitCode>>
           ELSE /\ out' = Append(out, FetchFailure(r.kind))
                /\ pc' = "exit"
                /\ exitCode' = "1"
    /\ UNCHANGED <<argsModel, ref, platform, priv, argsModelsPath, envModels,
                   srcExists, srcManifest, modelsPath, fs, fs0, listing, todo,
                   choice>>

\* the rendering of the manifest
GetRender ==
    /\ pc = "render"
    /\ out' = out \o Rendering(ref, resp)
    /\ pc' = "done"
    /\ exitCode' = "0"
    /\ UNCHANGED <<argsModel, ref, resp, platform, priv, argsModelsPath,
                   envModels, srcExists, srcManifest, modelsPath, fs, fs0,
                   listing, todo, choice>>

NoPath == [given |-> FALSE, val |-> <<>>]
NoStores == <<>>

\* a `get` invocation: nothing of install is in play
InitGetWith(names) ==
    /\ pc = "get"
    /\ exitCode = "running"
    /\ out = <<>>
    /\ argsModel \in names
    /\ ref = NoRef
    /\ resp = NoResponse
    /\ platform = "posix"
    /\ priv = "user"
    /\ argsModelsPath = NoPath
    /\ envModels = NoPath
    /\ srcExists = FALSE
    /\ srcManifest = "absent"
    /\ modelsPath = [resolved |-> FALSE, val |-> <<>>]
    /\ fs = NoStores
    /\ fs0 = NoStores
    /\ listing = <<>>
    /\ todo = {}
    /\ choice = <<>>

InitParse == InitGetWith(Strings(NameAlphabet, MaxLen))
InitGet == InitGetWith(GetNames)

NextParse == GetParse
NextGet == GetParse \/ GetFetch \/ GetRender

\* the parser applied to every name up to MaxLen
SpecParse == InitParse /\ [][NextParse]_vars
\* a whole `get` invocation
SpecGet == InitGet /\ [][NextGet]_vars

(***************************************************************************)
(* The stores.  A store is the tree under one models path: the set of its  *)
(* directories and the contents of its files, both named by their path     *)
(* relative to the store root (<<>> is the root itself).                   *)
(***************************************************************************)
BLOBS_PATTERN == "blobs"

Store(dirs, files) == [dirs |-> dirs, files |-> files]
NoFiles == [p \in {} |-> ""]

\* os.path.join(models_path, "manifests", DEFAULT_REGISTRY, namespace, model)
ManifestDestDir(r) == <<"manifests", DEFAULT_REGISTRY, r.namespace, r.model>>

\* os.path.join(manifest_dest_dir, tag)
ManifestDest(r) == Append(ManifestDestDir(r), r.tag)

\* os.path.join(models_path, BLOBS_PATTERN)
BlobsDestDir == <<BLOBS_PATTERN>>

\* os.path.join(blobs_dest_dir, hashed_name)
BlobDest(name) == <<BLOBS_PATTERN, name>>

Prefixes(p, k) == {SubSeq(p, 1, j) : j \in 0..k}

\* os.makedirs(p, exist_ok=True) that returns: p and every missing parent exist
makedirs(store, p) == Store(store.dirs \cup Prefixes(p, Len(p)), store.files)

\* os.makedirs(p, exist_ok=True) that raises after creating the parents up to depth k
makedirs_failed(store, p, k) == Store(store.dirs \cup Prefixes(p, k), store.files)

\* the depths at which makedirs can raise: something is still to be created
FailDepths(store, p) ==
    IF p \in store.dirs THEN {} ELSE (-1)..(Len(p) - 1)

\* shutil.copy2(src, dest) that returns: dest holds the content of src
copy2(store, dest, content) == Store(store.dirs, (dest :> content) @@ store.files)

\* shutil.copy2(src, dest) that raises: dest is untouched, or opened and cut short
copy2_failed(store, dest, touched) ==
    IF touched THEN Store(store.dirs, (dest :> "partial") @@ store.files) ELSE store

(***************************************************************************)
(* check_admin, get_file_hash, get_models_path                             *)
(***************************************************************************)
\* check_admin with the probe's exception taken for "elevated"
check_admin_FailOpen(system, probe) ==
    IF system = "windows"
    THEN (IF probe = "throws" THEN TRUE ELSE probe = "admin")
    ELSE probe = "admin"

\* "admin": the probe answers elevated; "user": it answers not elevated;
\* "throws": ctypes.windll.shell32.IsUserAnAdmin() raises (windows only)
check_admin(system, probe) ==
    IF system = "windows"
    THEN (IF probe = "throws" THEN FALSE ELSE probe = "admin")
    ELSE probe = "admin"

Sha256 == <<"s", "h", "a", "2", "5", "6">>
Sha256Dash == Sha256 \o <<"-">>

\* hashlib.sha256 over the file's bytes, hexdigest: one digest per content
hexdigest(content) ==
    CASE content = "c1" -> <<"1", "f">>
      [] content = "c2" -> <<"2", "e">>
      [] content = "c3" -> <<"3", "d">>
      [] content = "c4" -> <<"4", "c">>
      [] OTHER          -> <<"0", "0">>

get_file_hash(content) == Sha256Dash \o hexdigest(content)

\* the destination file name of a blob (hashed_name)
HashedName(filename, content) ==
    IF ~Contains(filename, Sha256) THEN get_file_hash(content)
    ELSE IF StartsWith(filename, Sha256Dash) THEN filename
    ELSE IF StartsWith(filename, Sha256) THEN ReplaceFirst(filename, Sha256, Sha256Dash)
    ELSE filename

Home == <<"/", "h">>

\* os.path.expanduser
expanduser(p) ==
    IF p # <<>> /\ Head(p) = "~" /\ (Len(p) = 1 \/ p[2] = "/")
    THEN Home \o Tail(p) ELSE p

\* `if explicit_path:` and `if env_path:`: set and not empty
PathTruthy(p) == p.given /\ p.val # <<>>

Path(given, val) == [given |-> given, val |-> val]
Resolved(val) == [resolved |-> TRUE, val |-> val]
Unresolved == [resolved |-> FALSE, val |-> <<>>]

\* get_models_path with the two priorities swapped
get_models_path_EnvFirst(explicit, env) ==
    IF PathTruthy(env) THEN Resolved(env.val)
    ELSE IF PathTruthy(explicit) THEN Resolved(expanduser(explicit.val))
    ELSE Unresolved

\* the path get_models_path returns, Unresolved when it exits instead
get_models_path(explicit, env) ==
    IF PathTruthy(explicit) THEN Resolved(expanduser(explicit.val))
    ELSE IF PathTruthy(env) THEN Resolved(env.val)
    ELSE Unresolved

\* what get_models_path prints when neither is set
NotSetMessage ==
    <<print_error("Ollama models path is not set.", <<>>),
      print("", <<>>),
      print("Set it in one of two ways:", <<>>),
      print("1. Environment variable:", <<>>),
      print("export OLLAMA_MODELS=/path/to/ollama/models", <<>>),
      print("2. CLI argument:", <<>>),
      print("--modelsPath /path/to/ollama/models", <<>>),
      print("", <<>>),
      print("Common paths:", <<>>),
      print("Linux  : /usr/share/ollama/.ollama/models", <<>>),
      print("macOS  : ~/.ollama/models", <<>>),
      print("Windows: C:/Users/<username>/.ollama/models", <<>>),
      print("", <<>>),
      print_info("Tip: Find your path with: ollama show --modelfile", <<>>)>>

\* what get_models_path prints
ModelsPathOutput(explicit, env) ==
    IF PathTruthy(explicit)
    THEN <<print_info("Using models path", <<expanduser(explicit.val)>>)>>
    ELSE IF PathTruthy(env)
    THEN <<print_info("Using OLLAMA_MODELS path", <<env.val>>)>>
    ELSE NotSetMessage

(***************************************************************************)
(* The inputs of an install.                                               *)
(***************************************************************************)
InstallNames == {<<"m">>, <<"n", "/", "m", ":", "t">>}

ExplicitPaths ==
    {Path(FALSE, <<>>), Path(TRUE, <<>>), Path(TRUE, <<"~", "/", "s">>),
     Path(TRUE, <<"/", "s">>)}
EnvPaths == {Path(FALSE, <<>>), Path(TRUE, <<>>), Path(TRUE, <<"/", "e">>)}
Roots == {<<"/", "h", "/", "s">>, <<"/", "s">>, <<"/", "e">>}

ManifestName == <<"m", "a", "n", "i", "f", "e", "s", "t">>

Entry(kind, content) == [kind |-> kind, content |-> content]

\* what the source directory may hold besides `manifest`
Candidates ==
    (Sha256 \o <<":", "a", "b">>) :> Entry("file", "c1")
    @@ (Sha256Dash \o <<"c", "d">>) :> Entry("file", "c2")
    @@ <<"m", ".", "b">> :> Entry("file", "c3")
    @@ (<<"x">> \o Sha256) :> Entry("file", "c4")
    @@ <<"s", "u", "b">> :> Entry("dir", "")

\* os.listdir(blobs_path): `manifest` and at most MaxFiles other entries
Listings(manifestKind) ==
    {[n \in S \cup {ManifestName} |->
        IF n = ManifestName THEN Entry(manifestKind, "new") ELSE Candidates[n]] :
     S \in {T \in SUBSET DOMAIN Candidates : Cardinality(T) <= MaxFiles}}

\* a store before the install: missing, an empty root, or already holding this
\* model's manifest and a blob
PreStore(kind, r) ==
    CASE kind = "none"  -> Store({}, NoFiles)
      [] kind = "empty" -> Store({<<>>}, NoFiles)
      [] OTHER ->
            Store(Prefixes(ManifestDestDir(r), Len(ManifestDestDir(r))) \cup {BlobsDestDir},
                  (ManifestDest(r) :> "old")
                  @@ (BlobDest(Sha256Dash \o <<"c", "d">>) :> "oldblob"))

InitInstall ==
    /\ pc = "install"
    /\ exitCode = "running"
    /\ out = <<>>
    /\ argsModel \in InstallNames
    /\ ref = NoRef
    /\ resp = NoResponse
    /\ platform \in {"windows", "posix"}
    /\ priv \in (IF platform = "windows" THEN {"admin", "user", "throws"}
                 ELSE {"admin", "user"})
    /\ argsModelsPath \in ExplicitPaths
    /\ envModels \in EnvPaths
    /\ srcExists \in BOOLEAN
    /\ srcManifest \in (IF srcExists THEN {"absent", "file", "dir"} ELSE {"absent"})
    /\ modelsPath = Unresolved
    /\ \E kind \in {"none", "empty", "full"} :
            fs = [root \in Roots |-> PreStore(kind, parse_model_name(argsModel))]
    /\ fs0 = fs
    /\ listing = <<>>
    /\ todo = {}
    /\ choice = <<>>

(***************************************************************************)
(* cmd_install                                                             *)
(***************************************************************************)
\* the process ends with status 1 after printing `lines`
Abort(lines) ==
    /\ out' = out \o lines
    /\ pc' = "exit"
    /\ exitCode' = "1"

\* the store the install works on
TheStore == fs[modelsPath.val]

\* the permission guard, then the parse of --model
InstallStart ==
    /\ pc = "install"
    /\ IF ~check_admin(platform, priv)
       THEN /\ Abort(<<print_error("Please run the command with elevated permissions", <<>>)>>)
            /\ UNCHANGED ref
       ELSE /\ ref' = parse_model_name(argsModel)
            /\ out' = out \o ParseOutput(argsModel)
                          \o <<print_info("Installing model", <<>>)>>
            /\ pc' = "validate"
            /\ UNCHANGED exitCode
    /\ UNCHANGED <<argsModel, resp, platform, priv, argsModelsPath, envModels,
                   srcExists, srcManifest, modelsPath, fs, fs0, listing, todo,
                   choice>>

\* the manifest check done with os.path.exists: a directory `manifest` passes
ManifestMissing_Exists(manifestKind) == manifestKind = "absent"

\* `not os.path.isfile(manifest_source)`: only a regular file will do
ManifestMissing(manifestKind) == manifestKind # "file"

\* the source directory exists and holds a regular file `manifest`
InstallValidate ==
    /\ pc = "validate"
    /\ IF ~srcExists
       THEN Abort(<<print_error("blobsPath does not exist.", <<>>)>>)
       ELSE IF ManifestMissing(srcManifest)
       THEN Abort(<<print_error("Missing 'manifest' file", <<>>)>>)
       ELSE /\ pc' = "resolve"
            /\ UNCHANGED <<out, exitCode>>
    /\ UNCHANGED <<argsModel, ref, resp, platform, priv, argsModelsPath,
                   envModels, srcExists, srcManifest, modelsPath, fs, fs0,
                   listing, todo, choice>>

\* models_path = get_models_path(args.modelsPath)
InstallResolve ==
    /\ pc = "resolve"
    /\ modelsPath' = get_models_path(argsModelsPath, envModels)
    /\ IF modelsPath'.resolved
       THEN /\ out' = out \o ModelsPathOutput(argsModelsPath, envModels)
            /\ pc' = "mkroot"
            /\ UNCHANGED exitCode
       ELSE Abort(ModelsPathOutput(argsModelsPath, envModels))
    /\ UNCHANGED <<argsModel, ref, resp, platform, priv, argsModelsPath,
                   envModels, srcExists, srcManifest, fs, fs0, listing, todo,
                   choice>>

\* os.makedirs(p) on the store, which returns or raises; `after` is where the
\* install goes on and `error` what it prints when makedirs raises
MakeDirsStep(p, after, error) ==
    \/ /\ fs' = [fs EXCEPT ![modelsPath.val] = makedirs(@, p)]
       /\ pc' = after
       /\ UNCHANGED <<out, exitCode>>
    \/ \E k \in FailDepths(TheStore, p) :
        /\ fs' = [fs EXCEPT ![modelsPath.val] = makedirs_failed(@, p, k)]
        /\ Abort(<<print_error(error, <<>>)>>)

\* os.makedirs(models_path, exist_ok=True)
InstallMakeRoot ==
    /\ pc = "mkroot"
    /\ MakeDirsStep(<<>>, "mkmanifestdir", "Error creating models directory")
    /\ UNCHANGED <<argsModel, ref, resp, platform, priv, argsModelsPath,
                   envModels, srcExists, srcManifest, modelsPath, fs0, listing,
                   todo, choice>>

\* os.makedirs(manifest_dest_dir, exist_ok=True)
InstallMakeManifestDir ==
    /\ pc = "mkmanifestdir"
    /\ MakeDirsStep(ManifestDestDir(ref), "confirm", "Error creating manifest directory")
    /\ UNCHANGED <<argsModel, ref, resp, platform, priv, argsModelsPath,
                   envModels, srcExists, srcManifest, modelsPath, fs0, listing,
                   todo, choice>>

\* what the operator may type at the prompt
Choices ==
    {<<"Y">>, <<"y">>, <<" ", "y">>, <<"Y", "\t">>, <<"n">>, <<>>, <<" ">>,
     <<"y", "e", "s">>, <<"Y", "Y">>}

\* the answer tested with startswith('Y'): `yes` is taken for an acceptance
Accepts_Prefix(c) == StartsWith(Upper(Strip(c)), <<"Y">>)

\* `choice.strip().upper() != 'Y'` is false
Accepts(c) == Upper(Strip(c)) = <<"Y">>

\* what the overwrite question prints before it reads the answer
OverwritePrompt ==
    <<print_warning("Some model files already exist.", <<>>),
      print("Type 'Y' to proceed: ", <<>>)>>

\* the overwrite question, asked when the destination manifest exists; input()
\* returns the operator's line or raises EOFError
InstallConfirm ==
    /\ pc = "confirm"
    /\ IF ManifestDest(ref) \in DOMAIN TheStore.files
       THEN \/ \E c \in Choices :
                /\ choice' = c
                /\ IF Accepts(c)
                   THEN /\ out' = out \o OverwritePrompt
                        /\ pc' = "copymanifest"
                        /\ UNCHANGED exitCode
                   ELSE Abort(OverwritePrompt
                              \o <<print_error("Installation aborted!", <<>>)>>)
            \/ /\ Abort(OverwritePrompt \o <<Traceback("EOFError")>>)
               /\ UNCHANGED choice
       ELSE /\ pc' = "copymanifest"
            /\ UNCHANGED <<out, exitCode, choice>>
    /\ UNCHANGED <<argsModel, ref, resp, platform, priv, argsModelsPath,
                   envModels, srcExists, srcManifest, modelsPath, fs, fs0,
                   listing, todo>>

\* shutil.copy2(manifest_source, manifest_dest)
InstallCopyManifest ==
    /\ pc = "copymanifest"
    /\ \/ /\ fs' = [fs EXCEPT ![modelsPath.val] = copy2(@, ManifestDest(ref), "new")]
          /\ out' = Append(out, print_info("Copying manifest", <<>>))
          /\ pc' = "mkblobs"
          /\ UNCHANGED exitCode
       \/ \E touched \in BOOLEAN :
            /\ fs' = [fs EXCEPT ![modelsPath.val] =
                            copy2_failed(@, ManifestDest(ref), touched)]
            /\ Abort(<<print_info("Copying manifest", <<>>),
                       print_error("Error copying manifest", <<>>)>>)
    /\ UNCHANGED <<argsModel, ref, resp, platform, priv, argsModelsPath,
                   envModels, srcExists, srcManifest, modelsPath, fs0, listing,
                   todo, choice>>

\* os.makedirs(blobs_dest_dir, exist_ok=True)
InstallMakeBlobsDir ==
    /\ pc = "mkblobs"
    /\ MakeDirsStep(BlobsDestDir, "listdir", "Error creating blobs directory")
    /\ UNCHANGED <<argsModel, ref, resp, platform, priv, argsModelsPath,
                   envModels, srcExists, srcManifest, modelsPath, fs0, listing,
                   todo, choice>>

\* the two announcements, then os.listdir(blobs_path)
InstallListdir ==
    /\ pc = "listdir"
    /\ \E l \in Listings(srcManifest) :
        /\ listing' = l
        /\ todo' = DOMAIN l
    /\ out' = out \o <<print_info("Copying blobs", <<>>),
                       print_warning("This may take a while", <<>>)>>
    /\ pc' = "loop"
    /\ UNCHANGED <<exitCode, argsModel, ref, resp, platform, priv,
                   argsModelsPath, envModels, srcExists, srcManifest,
                   modelsPath, fs, fs0, choice>>

\* `filename == "manifest" or os.path.isdir(...)`: the entry is skipped
Skipped(filename) == filename = ManifestName \/ listing[filename].kind = "dir"

\* what one iteration prints before it copies
BlobAnnounce(filename) ==
    (IF ~Contains(filename, Sha256)
     THEN <<print_info("Calculating SHA-256 hash", <<filename>>)>> ELSE <<>>)
    \o <<print_info("Copying", <<filename, HashedName(filename, listing[filename].content)>>)>>

\* the failure reported and the loop going on to the next entry
AfterBlobFailure_Continue(lines) ==
    /\ out' = out \o lines
    /\ UNCHANGED <<pc, exitCode>>

\* what follows an iteration whose hashing or copy raised: sys.exit(1), or the
\* uncaught exception ending the process
AfterBlobFailure(lines) == Abort(lines)

\* one iteration of `for filename in os.listdir(blobs_path)`, in whatever
\* order the directory lists its entries
InstallBlob ==
    /\ pc = "loop"
    /\ \E filename \in todo :
        LET dest == BlobDest(HashedName(filename, listing[filename].content))
        IN  \/ /\ Skipped(filename)
               /\ todo' = todo \ {filename}
               /\ UNCHANGED <<pc, out, exitCode, fs>>
            \/ /\ ~Skipped(filename)
               /\ fs' = [fs EXCEPT ![modelsPath.val] =
                                copy2(@, dest, listing[filename].content)]
               /\ out' = out \o BlobAnnounce(filename)
               /\ todo' = todo \ {filename}
               /\ UNCHANGED <<pc, exitCode>>
            \/ /\ ~Skipped(filename)
               /\ ~Contains(filename, Sha256)
               /\ AfterBlobFailure(<<print_info("Calculating SHA-256 hash", <<filename>>),
                                     Traceback("OSError")>>)
               /\ todo' = todo \ {filename}
               /\ UNCHANGED fs
            \/ /\ ~Skipped(filename)
               /\ \E touched \in BOOLEAN :
                    fs' = [fs EXCEPT ![modelsPath.val] = copy2_failed(@, dest, touched)]
               /\ AfterBlobFailure(BlobAnnounce(filename)
                                   \o <<print_error("Error copying blob", <<filename>>)>>)
               /\ todo' = todo \ {filename}
    /\ UNCHANGED <<argsModel, ref, resp, platform, priv, argsModelsPath,
                   envModels, srcExists, srcManifest, modelsPath, fs0, listing,
                   choice>>

\* the loop is over: the success message
InstallFinish ==
    /\ pc = "loop"
    /\ todo = {}
    /\ out' = out \o <<print_success("Model installed successfully!", <<>>),
                       print_info("You can now run it using", <<>>)>>
    /\ pc' = "done"
    /\ exitCode' = "0"
    /\ UNCHANGED <<argsModel, ref, resp, platform, priv, argsModelsPath,
                   envModels, srcExists, srcManifest, modelsPath, fs, fs0,
                   listing, todo, choice>>

Init == InitInstall

Next ==
    \/ InstallStart
    \/ InstallValidate
    \/ InstallResolve
    \/ InstallMakeRoot
    \/ InstallMakeManifestDir
    \/ InstallConfirm
    \/ InstallCopyManifest
    \/ InstallMakeBlobsDir
    \/ InstallListdir
    \/ InstallBlob
    \/ InstallFinish

\* a whole `install` invocation
Spec == Init /\ [][Next]_vars

(***************************************************************************)
(* Vocabulary of the properties.                                           *)
(***************************************************************************)
Printed(msg) == \E i \in DOMAIN out : out[i].msg = msg
LinesOf(msg) == SelectSeq(out, LAMBDA e : e.msg = msg)
Failed == pc = "exit" /\ exitCode = "1"
Changed(root, p) ==
    p \notin DOMAIN fs0[root].files \/ fs0[root].files[p] # fs[root].files[p]
\* the blob files the install created or rewrote in its store
WrittenBlobs ==
    {p \in DOMAIN TheStore.files : p[1] = BLOBS_PATTERN /\ Changed(modelsPath.val, p)}
\* the entries of the source directory that are blobs
SourceBlobs ==
    {f \in DOMAIN listing : f # ManifestName /\ listing[f].kind = "file"}
InstalledAs(f, name) ==
    /\ BlobDest(name) \in DOMAIN TheStore.files
    /\ TheStore.files[BlobDest(name)] = listing[f].content

(***************************************************************************)
(* C1.  Blob destination naming: after an install that succeeded, a source *)
(* file `sha256:<hex>` is in the store as `sha256-<hex>`, a file whose     *)
(* name starts with `sha256-` is there under its own name, and a file      *)
(* whose name does not contain `sha256` is there as `sha256-` followed by  *)
(* the SHA-256 digest of its bytes.                                        *)
(***************************************************************************)
BlobNaming ==
    pc = "done" =>
        \A f \in SourceBlobs :
            /\ StartsWith(f, Sha256 \o Colon) =>
                    InstalledAs(f, Sha256Dash \o SubSeq(f, Len(Sha256) + 2, Len(f)))
            /\ StartsWith(f, Sha256Dash) => InstalledAs(f, f)
            /\ ~Contains(f, Sha256) =>
                    InstalledAs(f, Sha256Dash \o hexdigest(listing[f].content))

(***************************************************************************)
(* C2.  Store layout: after an install that succeeded, every blob file it  *)
(* wrote lies directly in blobs/ under a name that starts with `sha256-`,  *)
(* whatever the names in the source directory.                             *)
(***************************************************************************)
StoreLayout ==
    pc = "done" =>
        \A p \in WrittenBlobs : Len(p) = 2 /\ StartsWith(p[2], Sha256Dash)

(***************************************************************************)
(* C3.  Permission guard: once the privilege check has answered "not       *)
(* elevated" (the probe said so, or it raised), the install has ended with *)
(* status 1, it printed the one error and nothing else, no later step ran  *)
(* (no parse, no path resolution, no listing) and every store is as it was.*)
(***************************************************************************)
PermissionGuard ==
    (priv \in {"user", "throws"} /\ pc # "install") =>
        /\ Failed
        /\ fs = fs0
        /\ Len(out) = 1 /\ out[1].stream = "stderr"
        /\ ref = NoRef
        /\ ~modelsPath.resolved
        /\ listing = <<>>

PermissionGuardWitness ==
    /\ platform = "windows" /\ priv = "throws"
    /\ Failed
    /\ Printed("Please run the command with elevated permissions")

(***************************************************************************)
(* C4.  Source validation before any write: an elevated install whose      *)
(* source directory does not exist, or holds no regular file `manifest`,   *)
(* has ended with status 1 as soon as the validation ran, with no          *)
(* directory created and no file copied in any store.                      *)
(***************************************************************************)
SourceValidation ==
    (priv = "admin" /\ pc \notin {"install", "validate"}
        /\ (~srcExists \/ srcManifest # "file")) =>
        /\ Failed
        /\ fs = fs0
        /\ ~modelsPath.resolved
        /\ ~Printed("Copying manifest") /\ ~Printed("Copying")

SourceValidationWitness ==
    /\ priv = "admin" /\ srcExists /\ srcManifest = "dir"
    /\ Failed
    /\ Printed("Missing 'manifest' file")
    /\ \E root \in Roots : fs[root].dirs = {}

(***************************************************************************)
(* C5.  Overwrite confirmation.                                            *)
(***************************************************************************)
Asked == Printed("Some model files already exist.")
ManifestExisted ==
    modelsPath.resolved /\ ManifestDest(ref) \in DOMAIN fs0[modelsPath.val].files

\* C5 as claimed: the install asks when the destination manifest exists, and
\* every answer other than `Y` or `y` ends it with status 1 and every store as it
\* was.
OverwriteOnlyOnY ==
    Asked /\ choice \notin {<<"Y">>, <<"y">>} => Failed /\ fs = fs0

\* the answer is one `Y` or `y` with nothing but white space around it
IsYPadded(c) ==
    \E i \in 1..Len(c) :
        /\ c[i] \in {"Y", "y"}
        /\ \A j \in 1..Len(c) : j # i => c[j] \in Whitespace

\* C5 as amended: the install asks exactly when the destination manifest exists;
\* every answer that is not `Y` or `y` once the white space around it is
\* stripped (and the end of input) ends it with status 1, the manifest and every
\* store as they were; the manifest is rewritten only after an accepting answer.
OverwriteConfirmation ==
    /\ (ManifestExisted /\ pc \notin {"mkroot", "mkmanifestdir", "confirm"}) => Asked
    /\ Asked => ManifestExisted
    /\ (Asked /\ ~IsYPadded(choice)) =>
            /\ Failed
            /\ fs = fs0
            /\ out[Len(out)].stream = "stderr"
    /\ (ManifestExisted /\ Changed(modelsPath.val, ManifestDest(ref))) =>
            Asked /\ IsYPadded(choice)

OverwriteConfirmationWitness ==
    /\ Asked
    /\ choice = <<"y", "e", "s">>
    /\ Failed
    /\ TheStore.files[ManifestDest(ref)] = "old"

(***************************************************************************)
(* C6.  Models-path resolution.                                            *)
(***************************************************************************)
ResolveRan == modelsPath.resolved \/ Printed("Ollama models path is not set.")
OnlyStoreTouched == \A root \in Roots : root # modelsPath.val => fs[root] = fs0[root]

IsSet(p) == p.given /\ Len(p.val) > 0

ErrorsOnStderr ==
    Failed =>
        \E first \in DOMAIN out :
            \A i \in first..Len(out) : out[i].stream = "stderr"

(***************************************************************************)
(* C10.  Blob copy is fail-fast and without rollback: once the hashing or  *)
(* the copy of a blob has failed, the install has ended with status 1, the *)
(* failure is the last thing printed (no further blob is announced or      *)
(* copied, no success message), and the manifest and every blob copied     *)
(* before the failure are in the store with the content of their source    *)
(* (the source names of the model have distinct destination names).        *)
(***************************************************************************)
HashFailed == \E i \in DOMAIN out : out[i].msg = "Traceback" /\ out[i].arg = <<"OSError">>
CopyFailed == Printed("Error copying blob")
\* the announcements of the blobs whose copy returned
CopiedBefore ==
    {i \in DOMAIN out : out[i].msg = "Copying" /\ (CopyFailed => i # Len(out) - 1)}

BlobFailFast ==
    (HashFailed \/ CopyFailed) =>
        /\ Failed
        /\ out[Len(out)].msg \in {"Traceback", "Error copying blob"}
        /\ out[Len(out)].stream = "stderr"
        /\ ~Printed("Model installed successfully!")
        /\ TheStore.files[ManifestDest(ref)] = "new"
        /\ \A i \in CopiedBefore :
                /\ BlobDest(out[i].arg[2]) \in DOMAIN TheStore.files
                /\ TheStore.files[BlobDest(out[i].arg[2])] = listing[out[i].arg[1]].content
        /\ \A f \in todo : \A i \in DOMAIN out :
                out[i].msg = "Copying" => out[i].arg[1] # f

BlobFailFastWitness ==
    /\ CopyFailed
    /\ Failed
    /\ CopiedBefore # {}
    /\ \E f \in todo : ~Skipped(f)
    /\ \E p \in WrittenBlobs : TheStore.files[p] = "partial"

(***************************************************************************)
(* C8.  Model-name parser: a name with no colon and no slash parses to     *)
(* (library, name, latest) with the tag-default warning; a name            *)
(* ns/model:tag, its three parts free of separators, parses to             *)
(* (ns, model, tag) with no warning; the warning is printed exactly when   *)
(* the name holds no colon.                                                *)
(***************************************************************************)
Warned == Printed("Using default model tag")
NoSeparator(s) == \A i \in 1..Len(s) : s[i] \notin {":", "/"}

ParserContract ==
    pc # "get" =>
        /\ NoSeparator(argsModel) =>
                /\ ref = [namespace |-> Library, model |-> argsModel, tag |-> Latest]
                /\ Warned
        /\ \A i, j \in 1..Len(argsModel) :
                LET ns == SubSeq(argsModel, 1, i - 1)
                    md == SubSeq(argsModel, i + 1, j - 1)
                    tg == SubSeq(argsModel, j + 1, Len(argsModel))
                IN  (/\ i < j /\ argsModel[i] = "/" /\ argsModel[j] = ":"
                     /\ NoSeparator(ns) /\ NoSeparator(md) /\ NoSeparator(tg)) =>
                        /\ ref = [namespace |-> ns, model |-> md, tag |-> tg]
                        /\ ~Warned
        /\ Warned <=> (\A i \in 1..Len(argsModel) : argsModel[i] # ":")

ParserContractWitness ==
    /\ pc # "get"
    /\ argsModel = <<"a", "/", "a", ":", "a">>
    /\ ref = [namespace |-> <<"a">>, model |-> <<"a">>, tag |-> <<"a">>]
    /\ ~Warned

(***************************************************************************)
(* C9.  Rendering of `get`.                                                *)
(***************************************************************************)
LayerLinesOut == LinesOf("layer")
BlobCommandsOut == LinesOf("curl blob")
FirstIndex(msg) == CHOOSE i \in DOMAIN out :
    out[i].msg = msg /\ \A j \in 1..(i - 1) : out[j].msg # msg
OneManifestCommandFirst ==
    /\ Len(LinesOf("curl manifest")) = 1
    /\ \A i \in DOMAIN out :
            out[i].msg \in {"layer", "curl blob"} => FirstIndex("curl manifest") < i

\* C9 as claimed: with n entries in `layers` and c = 1 when a config object is
\* present, the output lists n + c layer lines numbered 1..n+c in manifest order,
\* the config last, then n + c blob fetch commands in the same order, after
\* exactly one manifest fetch command.
GetListsEveryEntry ==
    pc = "done" =>
        LET entries == IF resp.config.present
                       THEN Append(resp.layers, resp.config.layer) ELSE resp.layers
        IN  /\ Len(LayerLinesOut) = Len(entries)
            /\ Len(BlobCommandsOut) = Len(entries)
            /\ \A k \in 1..Len(entries) :
                    /\ LayerLinesOut[k].arg = <<k, Url(ref, "blobs", entries[k].digest)>>
                    /\ BlobCommandsOut[k].arg[1] = LayerLinesOut[k].arg[2]
            /\ OneManifestCommandFirst

\* C9 as amended: let the entries be the `layers` array followed by the config
\* object when it is present and not empty.  The output lists one layer line for
\* each entry that carries a non-empty digest, in manifest order, numbered with
\* the entry's position among all the entries (so 1..n+c without gaps exactly
\* when every entry carries a digest), then one blob fetch command for each
\* listed line in the same order, after exactly one manifest fetch command.
GetListsEveryDigest ==
    pc = "done" =>
        LET entries == IF resp.config.present /\ ~resp.config.empty
                       THEN Append(resp.layers, resp.config.layer) ELSE resp.layers
            listed(i) == entries[i].hasDigest /\ Len(entries[i].digest) > 0
            rank(i) == Cardinality({j \in 1..i : listed(j)})
        IN  /\ Len(LayerLinesOut) = rank(Len(entries))
            /\ Len(BlobCommandsOut) = rank(Len(entries))
            /\ \A i \in 1..Len(entries) : listed(i) =>
                    /\ LayerLinesOut[rank(i)].arg = <<i, Url(ref, "blobs", entries[i].digest)>>
                    /\ BlobCommandsOut[rank(i)].arg[1] = LayerLinesOut[rank(i)].arg[2]
            /\ OneManifestCommandFirst

GetListsEveryDigestWitness ==
    /\ pc = "done"
    /\ Len(resp.layers) = 2
    /\ resp.layers[1].digest = <<>>
    /\ resp.layers[2].digest = DigestA
    /\ resp.config.layer.digest = DigestC
    /\ Len(LayerLinesOut) = 2
    /\ LayerLinesOut[1].arg[1] = 2
    /\ LayerLinesOut[2].arg[1] = 3
    /\ Len(BlobCommandsOut) = 2

====
